---------------------------- MODULE Spec2Model ----------------------------
(***************************************************************************)
(* Model of the seller dashboard's three code units:                       *)
(*   - the mock tracking module      src/src/lib/api/tracking.ts           *)
(*   - the Axios API client          src/src/services/api/index.ts         *)
(*   - the NDR details page          src/unnamed/part_000                  *)
(* Each unit has its own next-state relation and specification; the units  *)
(* share no state in the source, so a unit's specification leaves the      *)
(* other units' variables unchanged.                                       *)
(***************************************************************************)
EXTENDS Integers, Sequences, FiniteSets, TLC

VARIABLES
    \* ---- tracking.ts
    clock,        \* Date.now(), in milliseconds
    loadTime,     \* value of Date.now() when the module body (dummyTrackingData) was evaluated
    call,         \* the fetchTrackingInfo call in progress (or its settled outcome)
    firstCanned,  \* observation: the first canned record returned and when
    \* ---- services/api/index.ts
    authToken,    \* localStorage['auth_token']
    location,     \* window.location.href
    apiPending,   \* requests sent and not yet answered
    apiHandler,   \* position inside the response error handler
    apiLast,      \* what the last interceptor returned
    \* ---- NDRDetailsPage
    routeId,      \* useParams().id
    hookToken,    \* useAuth().token
    loading, error, ndrDetails,   \* the three useState cells of lines 69-71
    toasts,       \* number of toast.error notifications shown
    inflight,     \* fetches started and not yet settled
    started,      \* number of fetches started so far
    effectRuns,   \* number of times the effect body has run
    mounted,      \* the component is mounted (not yet disposed)
    ndrLast,      \* observation: the last step of fetchNDRDetails
    selectedAction, comments, isSubmitting,   \* the useState cells of lines 176-178
    submitting,   \* handleSubmitAction calls started and not yet completed
    submitCalls,  \* number of handleSubmitAction calls so far
    submitLast    \* observation: the last completed handleSubmitAction

trackVars == <<clock, loadTime, call, firstCanned>>
apiVars   == <<authToken, location, apiPending, apiHandler, apiLast>>
ndrVars   == <<routeId, hookToken, loading, error, ndrDetails, toasts,
               inflight, started, effectRuns, mounted, ndrLast>>
submitVars == <<selectedAction, comments, isSubmitting, submitting,
                submitCalls, submitLast>>
vars      == <<trackVars, apiVars, ndrVars, submitVars>>

\* Optional values (JavaScript null / undefined against a present value).
None    == [has |-> FALSE]
Some(v) == [has |-> TRUE, val |-> v]

(***************************************************************************)
(*                         tracking.ts                                     *)
(***************************************************************************)

\* ---- bounds of the tracking model
MaxSuffix   == 3          \* AWB inputs are Prefix8 followed by up to MaxSuffix characters
RandomGrain == 3          \* Math.random() returns k / RandomGrain, k in 0..RandomGrain-1
TickMs      == 500        \* the clock advances in steps of TickMs
MaxTicks    == 4          \* the clock stops after MaxTicks steps
StartClock  == 172800000  \* Date.now() when the module is loaded

\* ---- program constants
HourMs  == 3600000        \* 60 * 60 * 1000
DelayMs == 1000           \* setTimeout(resolve, 1000)
AwbLen  == 10             \* /^\d{10}$/

Digits == {"0", "1", "2", "3", "4", "5", "6", "7", "8", "9"}

\* new Date(ms).toLocaleString(): the local date and time to the second.
toLocaleString(ms) == ms \div 1000

\* new Date(ms).toLocaleDateString(): the local calendar day.
toLocaleDateString(ms) == ms \div (24 * HourMs)

\* Variant: the pattern without its end anchor, /^\d{10}/.
RegexTestUnanchored(s) == Len(s) >= AwbLen /\ \A i \in 1..AwbLen : s[i] \in Digits

\* /^\d{10}$/.test(s): no flags, so $ is the end of the input and \d is [0-9].
RegexTest(s) == Len(s) = AwbLen /\ \A i \in 1..Len(s) : s[i] \in Digits

Key1 == <<"1", "2", "3", "4", "5", "6", "7", "8", "9", "0">>
Key2 == <<"9", "8", "7", "6", "5", "4", "3", "2", "1", "0">>
Key3 == <<"5", "6", "7", "8", "9", "0", "1", "2", "3", "4">>
CannedKeys == {Key1, Key2, Key3}

Event(status, loc, ms, description) ==
    [status |-> status, location |-> loc, timestamp |-> toLocaleString(ms),
     description |-> description]

\* The object literal of lines 20-111, every Date.now() in it read at time t.
dummyTrackingData(t) ==
    [k \in CannedKeys |->
      IF k = Key1 THEN
        [awbNumber |-> Key1, currentStatus |-> "In Transit",
         expectedDelivery |-> toLocaleDateString(t + 2 * 24 * HourMs),
         origin |-> <<"Mumbai", "Maharashtra">>,
         destination |-> <<"Bangalore", "Karnataka">>,
         courier |-> "RocketryBox Express",
         events |-> <<
           Event("In Transit", <<"Hyderabad", "Telangana">>, t - 12 * HourMs,
                 "Shipment departed from transit facility"),
           Event("In Transit", <<"Pune", "Maharashtra">>, t - 24 * HourMs,
                 "Shipment arrived at transit facility"),
           Event("Shipped", <<"Mumbai", "Maharashtra">>, t - 48 * HourMs,
                 "Shipment picked up from sender") >>]
      ELSE IF k = Key2 THEN
        [awbNumber |-> Key2, currentStatus |-> "Delivered",
         expectedDelivery |-> toLocaleDateString(t - 1 * 24 * HourMs),
         origin |-> <<"Delhi", "Delhi">>,
         destination |-> <<"Jaipur", "Rajasthan">>,
         courier |-> "RocketryBox Premium",
         events |-> <<
           Event("Delivered", <<"Jaipur", "Rajasthan">>, t - 6 * HourMs,
                 "Package delivered to recipient"),
           Event("Out for Delivery", <<"Jaipur", "Rajasthan">>, t - 12 * HourMs,
                 "Package is out for delivery"),
           Event("In Transit", <<"Gurugram", "Haryana">>, t - 24 * HourMs,
                 "Shipment in transit to destination"),
           Event("Shipped", <<"Delhi", "Delhi">>, t - 48 * HourMs,
                 "Shipment picked up from sender") >>]
      ELSE
        [awbNumber |-> Key3, currentStatus |-> "Out for Delivery",
         expectedDelivery |-> toLocaleDateString(t),
         origin |-> <<"Chennai", "Tamil Nadu">>,
         destination |-> <<"Coimbatore", "Tamil Nadu">>,
         courier |-> "RocketryBox Standard",
         events |-> <<
           Event("Out for Delivery", <<"Coimbatore", "Tamil Nadu">>, t - 4 * HourMs,
                 "Package is out for delivery"),
           Event("In Transit", <<"Salem", "Tamil Nadu">>, t - 18 * HourMs,
                 "Shipment in transit to destination"),
           Event("Shipped", <<"Chennai", "Tamil Nadu">>, t - 36 * HourMs,
                 "Shipment picked up from sender") >>]]

\* const cities = [...] of lines 118-129 (index 0 in the source is index 1 here).
cities == <<
    [name |-> "Mumbai",    state |-> "Maharashtra"],
    [name |-> "Delhi",     state |-> "Delhi"],
    [name |-> "Bangalore", state |-> "Karnataka"],
    [name |-> "Hyderabad", state |-> "Telangana"],
    [name |-> "Chennai",   state |-> "Tamil Nadu"],
    [name |-> "Kolkata",   state |-> "West Bengal"],
    [name |-> "Ahmedabad", state |-> "Gujarat"],
    [name |-> "Pune",      state |-> "Maharashtra"],
    [name |-> "Jaipur",    state |-> "Rajasthan"],
    [name |-> "Lucknow",   state |-> "Uttar Pradesh"] >>

\* The template string `${c.name}, ${c.state}`.
CityString(c) == <<c.name, c.state>>

\* The values Math.random() can return, as numerators over RandomGrain.
Random == 0 .. (RandomGrain - 1)

\* Math.floor(Math.random() * n) for the draw r.
FloorRandom(r, n) == (r * n) \div RandomGrain

\* cities[Math.floor(Math.random() * cities.length)]
CityAt(r) == cities[FloorRandom(r, Len(cities)) + 1]

\* Variant: push instead of unshift.
RECURSIVE TransitLoopAppend(_, _, _, _, _)
TransitLoopAppend(events, i, transitPoints, draws, now) ==
    IF i < transitPoints
    THEN TransitLoopAppend(
           events \o << Event("In Transit", CityString(CityAt(draws[i])),
                              now - (24 - i * 8) * HourMs,
                              "Shipment in transit to destination") >>,
           i + 1, transitPoints, draws, now)
    ELSE events

\* The for loop of lines 160-168: at index i an 'In Transit' event is put in front.
RECURSIVE TransitLoop(_, _, _, _, _)
TransitLoop(events, i, transitPoints, draws, now) ==
    IF i < transitPoints
    THEN TransitLoop(
           << Event("In Transit", CityString(CityAt(draws[i])),
                    now - (24 - i * 8) * HourMs,
                    "Shipment in transit to destination") >> \o events,
           i + 1, transitPoints, draws, now)
    ELSE events

\* Variant: 0 to 2 intermediate points (the + 1 of line 159 left out).
GenerateRecordNoPlusOne(awbNumber, originIndex, destIndex, now, rPoints, draws) ==
    LET origin      == cities[originIndex + 1]
        destination == cities[destIndex + 1]
        base == << Event("Shipped", CityString(origin), now - 48 * HourMs,
                         "Shipment picked up from sender") >>
        transitPoints == FloorRandom(rPoints, 3)
    IN  [awbNumber |-> awbNumber,
         currentStatus |-> "In Transit",
         expectedDelivery |-> toLocaleDateString(now + 3 * 24 * HourMs),
         origin |-> CityString(origin),
         destination |-> CityString(destination),
         courier |-> "RocketryBox Express",
         events |-> TransitLoop(base, 0, transitPoints, draws, now)]

\* Lines 138-178 of generateRandomTrackingInfo, once both indices are chosen:
\* now is Date.now(), rPoints the draw of line 159, draws the draws of getRandomCity.
GenerateRecord(awbNumber, originIndex, destIndex, now, rPoints, draws) ==
    LET origin      == cities[originIndex + 1]
        destination == cities[destIndex + 1]
        base == << Event("Shipped", CityString(origin), now - 48 * HourMs,
                         "Shipment picked up from sender") >>
        transitPoints == FloorRandom(rPoints, 3) + 1
    IN  [awbNumber |-> awbNumber,
         currentStatus |-> "In Transit",
         expectedDelivery |-> toLocaleDateString(now + 3 * 24 * HourMs),
         origin |-> CityString(origin),
         destination |-> CityString(destination),
         courier |-> "RocketryBox Express",
         events |-> TransitLoop(base, 0, transitPoints, draws, now)]

\* ---- inputs of fetchTrackingInfo
Prefix8     == <<"1", "2", "3", "4", "5", "6", "7", "8">>
SuffixChars == {"0", "a"}
Suffixes    == UNION { [1..n -> SuffixChars] : n \in 0..MaxSuffix }
AwbInputs   == {<<>>, Key1, Key2, Key3} \cup { Prefix8 \o s : s \in Suffixes }

InvalidAwbMessage == "Invalid AWB number. Please provide a 10-digit AWB number."

NoResult         == [kind |-> "none"]
Rejected(msg)    == [kind |-> "error", message |-> msg]
Resolved(rec, t, gen) == [kind |-> "record", record |-> rec, now |-> t, generated |-> gen]

IdleCall == [pc |-> "idle", awb |-> <<>>, due |-> 0,
             originIndex |-> 0, destIndex |-> 0, result |-> NoResult]


\* The clock moves on; never inside the synchronous generator.
Tick ==
    /\ call.pc # "loop"
    /\ clock + TickMs <= StartClock + MaxTicks * TickMs
    /\ clock' = clock + TickMs
    /\ UNCHANGED <<loadTime, call, firstCanned>>
    /\ UNCHANGED <<apiVars, ndrVars, submitVars>>

\* fetchTrackingInfo(awbNumber) up to its await: the 1000 ms timer is set.
CallFetch(awbNumber) ==
    /\ call.pc \in {"idle", "done"}
    /\ call' = [IdleCall EXCEPT !.pc = "delay", !.awb = awbNumber,
                                !.due = clock + DelayMs]
    /\ UNCHANGED <<clock, loadTime, firstCanned>>
    /\ UNCHANGED <<apiVars, ndrVars, submitVars>>

\* Line 191: the guard of the validation.
InvalidAwb(awbNumber) == awbNumber = <<>> \/ ~RegexTest(awbNumber)

\* Variant: the lookup never finds a canned record.
IsCannedNever(awbNumber) == FALSE

\* Line 201, left operand: dummyTrackingData[awbNumber] is defined.
IsCanned(awbNumber) == awbNumber \in DOMAIN dummyTrackingData(loadTime)

\* Variant: the canned data rebuilt at every call, its Date.now() read at call time.
CannedRecordAtCall(awbNumber) == dummyTrackingData(clock)[awbNumber]

\* Line 201, left operand: the entry of the module-level constant, whose
\* Date.now() calls ran once, when the module was loaded.
CannedRecord(awbNumber) == dummyTrackingData(loadTime)[awbNumber]

\* The timer fires and the body of lines 190-201 runs: the validation throws
\* (caught, logged and rethrown by lines 202-205), or the canned record is
\* returned, or the generator is entered and draws both indices (lines 132-133).
TimerFires ==
    /\ call.pc = "delay"
    /\ clock >= call.due
    /\ IF InvalidAwb(call.awb)
       THEN /\ call' = [call EXCEPT !.pc = "done",
                                    !.result = Rejected(InvalidAwbMessage)]
            /\ UNCHANGED firstCanned
       ELSE IF IsCanned(call.awb)
       THEN LET rec == CannedRecord(call.awb) IN
            /\ call' = [call EXCEPT !.pc = "done",
                                    !.result = Resolved(rec, clock, FALSE)]
            /\ firstCanned' = IF firstCanned.has THEN firstCanned
                              ELSE Some([awb |-> call.awb, at |-> clock, record |-> rec])
       ELSE /\ \E r1 \in Random, r2 \in Random :
                 call' = [call EXCEPT !.pc = "loop",
                            !.originIndex = FloorRandom(r1, Len(cities)),
                            !.destIndex   = FloorRandom(r2, Len(cities))]
            /\ UNCHANGED firstCanned
    /\ UNCHANGED <<clock, loadTime>>
    /\ UNCHANGED <<apiVars, ndrVars, submitVars>>

\* Variant: the loop body draws nothing new (the index is not reassigned).
RedrawSame ==
    /\ call.pc = "loop"
    /\ call.destIndex = call.originIndex
    /\ call' = [call EXCEPT !.destIndex = call.originIndex]
    /\ UNCHANGED <<clock, loadTime, firstCanned>>
    /\ UNCHANGED <<apiVars, ndrVars, submitVars>>

\* Lines 134-136: one iteration of the while loop.
Redraw ==
    /\ call.pc = "loop"
    /\ call.destIndex = call.originIndex
    /\ \E r \in Random :
         call' = [call EXCEPT !.destIndex = FloorRandom(r, Len(cities))]
    /\ UNCHANGED <<clock, loadTime, firstCanned>>
    /\ UNCHANGED <<apiVars, ndrVars, submitVars>>

\* Variant: no while loop; the first destination draw is kept.
GenEventsNoLoop ==
    /\ call.pc = "loop"
    /\ \E rPoints \in Random :
       \E draws \in [0 .. FloorRandom(rPoints, 3) -> Random] :
         call' = [call EXCEPT !.pc = "done",
                    !.result = Resolved(
                        GenerateRecord(call.awb, call.originIndex, call.destIndex,
                                       clock, rPoints, draws),
                        clock, TRUE)]
    /\ UNCHANGED <<clock, loadTime, firstCanned>>
    /\ UNCHANGED <<apiVars, ndrVars, submitVars>>

\* Lines 138-178: the loop has ended; the events are built and the record returned.
GenEvents ==
    /\ call.pc = "loop"
    /\ call.destIndex # call.originIndex
    /\ \E rPoints \in Random :
       \E draws \in [0 .. FloorRandom(rPoints, 3) -> Random] :
         call' = [call EXCEPT !.pc = "done",
                    !.result = Resolved(
                        GenerateRecord(call.awb, call.originIndex, call.destIndex,
                                       clock, rPoints, draws),
                        clock, TRUE)]
    /\ UNCHANGED <<clock, loadTime, firstCanned>>
    /\ UNCHANGED <<apiVars, ndrVars, submitVars>>

NextTracking ==
    \/ Tick
    \/ \E a \in AwbInputs : CallFetch(a)
    \/ TimerFires
    \/ Redraw
    \/ GenEvents

(***************************************************************************)
(*                      services/api/index.ts                              *)
(***************************************************************************)

MaxPending   == 2         \* at most MaxPending requests are awaiting their response
Unauthorized == 401       \* the status the response interceptor singles out

Tokens        == {"", "t1", "t2"}
StoredTokens  == {None} \cup { Some(t) : t \in Tokens }     \* localStorage.getItem
PresetHeaders == {None, Some(<<"Basic", "preset">>)}        \* Authorization set by the caller
ErrorStatuses == {400, 401, 403, 500}
\* An AxiosError: its identity (tag) and its response, absent for a network failure.
ApiErrors     == { [tag |-> g, response |-> r] :
                     g \in {"e1", "e2"},
                     r \in {None} \cup { Some([status |-> s]) : s \in ErrorStatuses } }
Bodies        == {"d1", "d2"}
LoginPath     == "/login"

\* Variant: if (token !== null).
TruthyNonNull(token) == token.has

\* if (token): a string is truthy unless it is empty; null is falsy.
Truthy(token) == token.has /\ token.val # ""

\* The template string `Bearer ${token}`.
Bearer(token) == <<"Bearer", token>>

\* Variant: every failure that has a response is treated as unauthorized.
IsUnauthorizedAnyStatus(err) == err.response.has

\* error.response?.status === 401
IsUnauthorized(err) == err.response.has /\ err.response.val.status = Unauthorized

HandlerIdle == [pc |-> "idle"]


FreeSlots == (1..MaxPending) \ { p.slot : p \in apiPending }

\* Lines 16-22: what the request interceptor returns for a config whose
\* Authorization header is preset, with token = localStorage.getItem('auth_token').
RequestInterceptor(preset, token) ==
    [Authorization |-> IF Truthy(token) THEN Some(Bearer(token.val)) ELSE preset]

\* A request passes the request interceptor and is sent.
ApiRequest(preset) ==
    /\ apiHandler.pc = "idle"
    /\ FreeSlots # {}
    /\ LET config == RequestInterceptor(preset, authToken)
           slot   == CHOOSE s \in FreeSlots : \A o \in FreeSlots : s <= o
       IN  /\ apiPending' = apiPending \cup {[slot |-> slot, headers |-> config]}
           /\ apiLast' = [kind |-> "request", given |-> preset, config |-> config]
    /\ UNCHANGED <<authToken, location, apiHandler>>
    /\ UNCHANGED <<trackVars, ndrVars, submitVars>>

\* Line 28: a response arrives and (response) => response.data runs.
ApiResponseOk(p, data) ==
    /\ apiHandler.pc = "idle"
    /\ p \in apiPending
    /\ apiPending' = apiPending \ {p}
    /\ apiLast' = [kind |-> "resolved", value |-> data]
    /\ UNCHANGED <<authToken, location, apiHandler>>
    /\ UNCHANGED <<trackVars, ndrVars, submitVars>>

\* Variant: the 401 branch redirects but leaves the credential in place.
ApiErrorEnterKeepToken(p, err) ==
    /\ apiHandler.pc = "idle"
    /\ p \in apiPending
    /\ apiPending' = apiPending \ {p}
    /\ IF IsUnauthorized(err)
       THEN /\ location' = LoginPath
            /\ UNCHANGED authToken
       ELSE UNCHANGED <<authToken, location>>
    /\ apiHandler' = [pc |-> "reject", error |-> err]
    /\ UNCHANGED apiLast
    /\ UNCHANGED <<trackVars, ndrVars, submitVars>>

\* Lines 29-34: the request fails and the error handler runs up to its return.
ApiErrorEnter(p, err) ==
    /\ apiHandler.pc = "idle"
    /\ p \in apiPending
    /\ apiPending' = apiPending \ {p}
    /\ IF IsUnauthorized(err)
       THEN /\ authToken' = None            \* localStorage.removeItem('auth_token')
            /\ location' = LoginPath        \* window.location.href = '/login'
       ELSE UNCHANGED <<authToken, location>>
    /\ apiHandler' = [pc |-> "reject", error |-> err]
    /\ UNCHANGED apiLast
    /\ UNCHANGED <<trackVars, ndrVars, submitVars>>

\* Line 35: return Promise.reject(error).
ApiErrorReject ==
    /\ apiHandler.pc = "reject"
    /\ apiLast' = [kind |-> "rejected", error |-> apiHandler.error]
    /\ apiHandler' = HandlerIdle
    /\ UNCHANGED <<authToken, location, apiPending>>
    /\ UNCHANGED <<trackVars, ndrVars, submitVars>>

NextApi ==
    \/ \E h \in PresetHeaders : ApiRequest(h)
    \/ \E p \in apiPending, d \in Bodies : ApiResponseOk(p, d)
    \/ \E p \in apiPending, e \in ApiErrors : ApiErrorEnter(p, e)
    \/ ApiErrorReject

(***************************************************************************)
(*                 NDRDetailsPage (src/unnamed/part_000)                   *)
(***************************************************************************)

MaxEffectRuns == 2        \* the effect runs at mount and at most MaxEffectRuns-1 times more
MaxAttempts   == 2        \* attempt_history has at most MaxAttempts elements

RouteIds   == {None, Some("n1"), Some("n2")}      \* useParams().id
HookTokens == {"tokA", "tokB"}                              \* useAuth().token

GenericMessage == "Failed to fetch NDR details"

\* ---- the server's payload
AttemptA == [date |-> "2024-05-03", time |-> "16:30", status |-> "Failed",
             reason |-> "Address not found", agent_remarks |-> None]
AttemptB == [date |-> "2024-05-01", time |-> "10:00", status |-> "Failed",
             reason |-> "Customer not available", agent_remarks |-> Some("left a note")]
\* Histories of 0..MaxAttempts attempts: the two attempts alternate, either one first.
Alternating(first, n) ==
    [i \in 1..n |-> IF (i % 2 = 1) = first THEN AttemptA ELSE AttemptB]
Histories == {None} \cup
             { Some(Alternating(first, n)) : first \in BOOLEAN, n \in 0..MaxAttempts }
Locations == {None,
              Some([lat |-> Some(12), lng |-> Some(77)]),
              Some([lat |-> None,     lng |-> Some(77)]),
              Some([lat |-> Some(12), lng |-> None]),
              Some([lat |-> None,     lng |-> None])}
Addresses == {None,
              Some([fullName |-> "A Kumar", addressLine1 |-> "12 MG Road",
                    addressLine2 |-> Some("Flat 4"), city |-> "Pune",
                    state |-> "Maharashtra", pincode |-> "411001",
                    contactNumber |-> "9000000001", email |-> Some("a@example.com")]),
              Some([fullName |-> "A Kumar", addressLine1 |-> "12 MG Road",
                    addressLine2 |-> None, city |-> "Pune",
                    state |-> "Maharashtra", pincode |-> "411001",
                    contactNumber |-> "9000000001", email |-> None])}
ProductLists == {None,
                 Some(<< [name |-> "Kettle", sku |-> "K-1", quantity |-> 1,
                          price |-> 999, image |-> "k.png"] >>)}

\* data.data with the given optional members.
Payload(h, l, a, p) ==
    [awb |-> "AWB1", order_id |-> "ORD1", order_date |-> "2024-04-28",
     courier_name |-> "BlueDart", customer_name |-> "A Kumar",
     attempts |-> IF h.has THEN Len(h.val) ELSE 0,
     attempt_history |-> h, status |-> "Action Required",
     ndr_reason |-> "Customer not available",
     recommended_action |-> "reschedule",
     current_location |-> l, delivery_address |-> a, products |-> p]

FullHistory  == Some(Alternating(TRUE, MaxAttempts))
FullLocation == Some([lat |-> Some(12), lng |-> Some(77)])
FullAddress  == CHOOSE a \in Addresses : a.has /\ a.val.email.has
FullProducts == CHOOSE p \in ProductLists : p.has

\* The parsed JSON: { data: {...} }, or a body with no data member. The
\* payloads differ from a complete one in one optional member at a time.
JsonBodies ==
    {[data |-> None]} \cup
    { [data |-> Some(d)] : d \in
        { Payload(h, FullLocation, FullAddress, FullProducts) : h \in Histories } \cup
        { Payload(FullHistory, l, FullAddress, FullProducts) : l \in Locations } \cup
        { Payload(FullHistory, FullLocation, a, FullProducts) : a \in Addresses } \cup
        { Payload(FullHistory, FullLocation, FullAddress, p) : p \in ProductLists } }

\* What the two awaits of lines 81-91 can produce.
ThrownValues == { [isError |-> TRUE,  message |-> "Failed to fetch"],
                  [isError |-> FALSE, message |-> "aborted"] }
FetchOutcomes ==
    { [kind |-> "rejected", thrown |-> t] : t \in ThrownValues } \cup
    { [kind |-> "status", status |-> s] : s \in {401, 500} } \cup
    { [kind |-> "unparsable"] } \cup
    { [kind |-> "json", body |-> b] : b \in JsonBodies }

\* The TypeError of reading a member of undefined.
TypeErrorData    == [isError |-> TRUE, message |-> "Cannot read properties of undefined (reading 'awb')"]
TypeErrorHistory == [isError |-> TRUE, message |-> "Cannot read properties of undefined (reading '0')"]
TypeErrorAddress == [isError |-> TRUE, message |-> "Cannot read properties of undefined (reading 'fullName')"]

\* x || d for a string, a number and an array (an array is always truthy).
OrStr(x, d) == IF x.has /\ x.val # "" THEN x.val ELSE d
OrNum(x, d) == IF x.has /\ x.val # 0  THEN x.val ELSE d
OrArr(x, d) == IF x.has THEN x.val ELSE d

\* Variant: the coordinates are taken only from a complete location.
CurrentLocationAllOrNothing(loc) ==
    IF loc.has /\ loc.val.lat.has /\ loc.val.lng.has
    THEN [lat |-> loc.val.lat.val, lng |-> loc.val.lng.val]
    ELSE [lat |-> 0, lng |-> 0]

\* Lines 105-108: current_location?.lat || 0 and current_location?.lng || 0.
CurrentLocation(loc) ==
    [lat |-> OrNum(IF loc.has THEN loc.val.lat ELSE None, 0),
     lng |-> OrNum(IF loc.has THEN loc.val.lng ELSE None, 0)]

\* Variant: the attempts are mapped newest-last (reversed).
MapAttemptsReversed(h) ==
    [i \in 1..Len(h) |->
       [date |-> h[Len(h) + 1 - i].date, time |-> h[Len(h) + 1 - i].time,
        status |-> h[Len(h) + 1 - i].status, reason |-> h[Len(h) + 1 - i].reason,
        comments |-> OrStr(h[Len(h) + 1 - i].agent_remarks, "")]]

\* Lines 109-115: attempt_history.map(...)
MapAttempts(h) ==
    [i \in 1..Len(h) |->
       [date |-> h[i].date, time |-> h[i].time, status |-> h[i].status,
        reason |-> h[i].reason, comments |-> OrStr(h[i].agent_remarks, "")]]

\* Lines 94-128: the object handed to setNdrDetails, or the TypeError thrown
\* while it is evaluated (members are evaluated in source order).
Transform(json) ==
    IF ~json.data.has THEN [ok |-> FALSE, thrown |-> TypeErrorData]
    ELSE LET d == json.data.val IN
    IF ~d.attempt_history.has THEN [ok |-> FALSE, thrown |-> TypeErrorHistory]
    ELSE IF ~d.delivery_address.has THEN [ok |-> FALSE, thrown |-> TypeErrorAddress]
    ELSE LET h == d.attempt_history.val
             a == d.delivery_address.val
    IN [ok |-> TRUE, details |->
         [awb |-> d.awb, orderNo |-> d.order_id, orderDate |-> d.order_date,
          courier |-> d.courier_name, customer |-> d.customer_name,
          attempts |-> d.attempts,
          lastAttemptDate |-> OrStr(IF Len(h) > 0 THEN Some(h[1].date) ELSE None, "-"),
          status |-> d.status, reason |-> d.ndr_reason,
          action |-> d.recommended_action,
          currentLocation |-> CurrentLocation(d.current_location),
          deliveryAttempts |-> MapAttempts(h),
          customerDetails |->
            [name |-> a.fullName, address1 |-> a.addressLine1,
             address2 |-> OrStr(a.addressLine2, ""), city |-> a.city,
             state |-> a.state, pincode |-> a.pincode, country |-> "India",
             phone |-> a.contactNumber, email |-> OrStr(a.email, "")],
          products |-> OrArr(d.products, <<>>)]]

\* Variant: the error thrown for a non-success status names the status.
TryBodyStatusMessage(outcome) ==
    IF outcome.kind = "rejected" THEN [ok |-> FALSE, thrown |-> outcome.thrown]
    ELSE IF outcome.kind = "status"
         THEN [ok |-> FALSE,
               thrown |-> [isError |-> TRUE,
                           message |-> IF outcome.status = 401 THEN "Unauthorized"
                                       ELSE "Server error"]]
    ELSE IF outcome.kind = "unparsable"
         THEN [ok |-> FALSE, thrown |-> [isError |-> TRUE, message |-> "Unexpected token"]]
    ELSE Transform(outcome.body)

\* Lines 81-128 after the awaits: the details to store, or the value thrown.
TryBody(outcome) ==
    IF outcome.kind = "rejected" THEN [ok |-> FALSE, thrown |-> outcome.thrown]
    ELSE IF outcome.kind = "status"
         THEN [ok |-> FALSE, thrown |-> [isError |-> TRUE, message |-> GenericMessage]]
    ELSE IF outcome.kind = "unparsable"
         THEN [ok |-> FALSE, thrown |-> [isError |-> TRUE, message |-> "Unexpected token"]]
    ELSE Transform(outcome.body)

\* Line 131: err instanceof Error ? err.message : 'Failed to fetch NDR details'
CatchMessage(thrown) == IF thrown.isError THEN thrown.message ELSE GenericMessage

\* Lines 146-195: which branch of the render returns.
View(l, e, d) ==
    IF l THEN "loading"
    ELSE IF (e.has /\ e.val # "") \/ ~d.has THEN "error"
    ELSE "details"

\* Lines 67-73: the hooks every render calls before the early returns.
HooksBeforeReturns ==
    <<"useParams", "useAuth", "useState", "useState", "useState", "useEffect">>

\* Lines 176-178: the hooks called below the early returns of lines 146-174.
HooksAfterReturns == <<"useState", "useState", "useState">>

\* The hooks one render calls, in order, for the state it renders.
HooksCalled(l, e, d) ==
    IF View(l, e, d) = "details"
    THEN HooksBeforeReturns \o HooksAfterReturns
    ELSE HooksBeforeReturns

\* if (!id)
NoId(id) == ~id.has \/ id.val = ""

\* Variant: the effect clears the error but does not call setLoading(true).
EffectBodyNoLoading(id, token) ==
    /\ effectRuns' = effectRuns + 1
    /\ IF NoId(id)
       THEN /\ ndrLast' = [op |-> "skipped"]
            /\ UNCHANGED <<loading, error, inflight, started>>
       ELSE /\ error' = None
            /\ inflight' = inflight \cup
                 {[seq |-> started + 1, id |-> id.val, auth |-> Bearer(token)]}
            /\ started' = started + 1
            /\ ndrLast' = [op |-> "started"]
            /\ UNCHANGED loading
    /\ UNCHANGED <<ndrDetails, toasts, mounted>>

\* Lines 74-85: fetchNDRDetails up to its first await, for the render's id and token.
EffectBody(id, token) ==
    /\ effectRuns' = effectRuns + 1
    /\ IF NoId(id)
       THEN /\ ndrLast' = [op |-> "skipped"]
            /\ UNCHANGED <<loading, error, inflight, started>>
       ELSE /\ loading' = TRUE
            /\ error' = None
            /\ inflight' = inflight \cup
                 {[seq |-> started + 1, id |-> id.val, auth |-> Bearer(token)]}
            /\ started' = started + 1
            /\ ndrLast' = [op |-> "started"]
    /\ UNCHANGED <<ndrDetails, toasts, mounted>>

\* The component mounts and the effect runs for the first time.
Mount ==
    /\ mounted
    /\ effectRuns = 0
    /\ EffectBody(routeId, hookToken)
    /\ UNCHANGED <<routeId, hookToken>>
    /\ UNCHANGED <<trackVars, apiVars, submitVars>>

\* A dependency of line 139 changes and the effect runs again.
DepsChange(id, token) ==
    /\ mounted
    /\ effectRuns >= 1
    /\ effectRuns < MaxEffectRuns
    /\ <<id, token>> # <<routeId, hookToken>>
    /\ routeId' = id
    /\ hookToken' = token
    /\ EffectBody(id, token)
    /\ UNCHANGED <<trackVars, apiVars, submitVars>>

\* Observation of a settled fetch: which fetch it was, what kind of outcome it
\* had and which members the mapping dereferences were present in the payload.
Observed(f, o) ==
    LET json == o.kind = "json"
        d    == o.body.data
    IN [op |-> "settled", seq |-> f.seq, kind |-> o.kind,
        status     |-> IF o.kind = "status" THEN o.status ELSE 200,
        hasData    |-> json /\ d.has,
        hasHistory |-> json /\ d.has /\ d.val.attempt_history.has,
        hasAddress |-> json /\ d.has /\ d.val.delivery_address.has,
        history    |-> IF json /\ d.has THEN d.val.attempt_history ELSE None,
        location   |-> IF json /\ d.has THEN d.val.current_location ELSE None]

\* Variant: the catch block notifies but does not call setError.
SettleNoSetError(f, o) ==
    /\ f \in inflight
    /\ inflight' = inflight \ {f}
    /\ ndrLast' = Observed(f, o)
    /\ LET r == TryBody(o) IN
       IF r.ok
       THEN /\ ndrDetails' = Some(r.details)
            /\ UNCHANGED <<error, toasts>>
       ELSE /\ toasts' = toasts + 1
            /\ UNCHANGED <<error, ndrDetails>>
    /\ loading' = FALSE
    /\ UNCHANGED <<routeId, hookToken, started, effectRuns, mounted>>
    /\ UNCHANGED <<trackVars, apiVars, submitVars>>

\* Lines 87-135: the awaits of fetch f settle with outcome o and the rest of
\* the try, the catch and the finally run.
Settle(f, o) ==
    /\ f \in inflight
    /\ inflight' = inflight \ {f}
    /\ ndrLast' = Observed(f, o)
    /\ LET r == TryBody(o) IN
       IF r.ok
       THEN /\ ndrDetails' = Some(r.details)
            /\ UNCHANGED <<error, toasts>>
       ELSE /\ error' = Some(CatchMessage(r.thrown))
            /\ toasts' = toasts + 1
            /\ UNCHANGED ndrDetails
    /\ loading' = FALSE
    /\ UNCHANGED <<routeId, hookToken, started, effectRuns, mounted>>
    /\ UNCHANGED <<trackVars, apiVars, submitVars>>

\* The component is unmounted. The effect of lines 73-139 returns no cleanup
\* function: nothing is aborted and the fetches in flight stay in flight.
Unmount ==
    /\ mounted
    /\ effectRuns >= 1
    /\ mounted' = FALSE
    /\ ndrLast' = [op |-> "unmounted"]
    /\ UNCHANGED <<routeId, hookToken, loading, error, ndrDetails, toasts,
                   inflight, started, effectRuns>>
    /\ UNCHANGED <<trackVars, apiVars, submitVars>>

NextNDR ==
    \/ Mount
    \/ Unmount
    \/ \E id \in RouteIds, t \in HookTokens : DepsChange(id, t)
    \/ \E f \in inflight, o \in FetchOutcomes : Settle(f, o)

\* ---- the action form of the details view (lines 176-193, 546-597)

\* Most handleSubmitAction calls considered in one behaviour.
MaxSubmits == 2

\* Lines 551-573: values of the RadioGroup items (three of the six).
ActionValues == {"reschedule", "update-address", "cancel"}

\* Line 585: values typed into the comments Textarea.
CommentTexts == {"", "call before delivery"}

\* Fetch outcomes that bring the page to the details view or to the error view.
PageOutcomes ==
    { [kind |-> "json",
       body |-> [data |-> Some(Payload(FullHistory, FullLocation, FullAddress, FullProducts))]],
      [kind |-> "status", status |-> 500] }

\* The form is on screen: the component is mounted and the render reaches
\* the return of line 195.
FormShown == mounted /\ View(loading, error, ndrDetails) = "details"

\* Line 549: onValueChange={setSelectedAction}
SetSelectedAction(a) ==
    /\ FormShown
    /\ a # selectedAction
    /\ selectedAction' = a
    /\ UNCHANGED <<comments, isSubmitting, submitting, submitCalls, submitLast>>
    /\ UNCHANGED <<trackVars, apiVars, ndrVars>>

\* Line 585: onChange={(e) => setComments(e.target.value)}
SetComments(c) ==
    /\ FormShown
    /\ c # comments
    /\ comments' = c
    /\ UNCHANGED <<selectedAction, isSubmitting, submitting, submitCalls, submitLast>>
    /\ UNCHANGED <<trackVars, apiVars, ndrVars>>

\* Variant: the submit button is not disabled while a submission is pending.
HandleSubmitActionNotDisabled ==
    /\ FormShown
    /\ submitCalls < MaxSubmits
    /\ isSubmitting' = TRUE
    /\ submitting' = submitting \cup
         {[seq |-> submitCalls + 1, action |-> selectedAction, comments |-> comments]}
    /\ submitCalls' = submitCalls + 1
    /\ UNCHANGED <<selectedAction, comments, submitLast>>
    /\ UNCHANGED <<trackVars, apiVars, ndrVars>>

\* Lines 593-594 and 180-183: a click on the enabled submit button runs
\* handleSubmitAction up to its await; the closure keeps the render's
\* selectedAction and comments.
HandleSubmitAction ==
    /\ FormShown
    /\ ~isSubmitting
    /\ submitCalls < MaxSubmits
    /\ isSubmitting' = TRUE
    /\ submitting' = submitting \cup
         {[seq |-> submitCalls + 1, action |-> selectedAction, comments |-> comments]}
    /\ submitCalls' = submitCalls + 1
    /\ UNCHANGED <<selectedAction, comments, submitLast>>
    /\ UNCHANGED <<trackVars, apiVars, ndrVars>>

\* Lines 183-191: the timer of submission sub fires and the rest of the try
\* runs; thrown says that console.log or toast.success threw, which takes the
\* catch. The finally runs in both cases.
SubmitContinues(sub, thrown) ==
    /\ sub \in submitting
    /\ submitting' = submitting \ {sub}
    /\ IF thrown
       THEN /\ submitLast' = [op |-> "done", seq |-> sub.seq, ok |-> FALSE,
                              toast |-> "Failed to submit action. Please try again.",
                              action |-> sub.action, comments |-> sub.comments]
            /\ UNCHANGED comments
       ELSE /\ submitLast' = [op |-> "done", seq |-> sub.seq, ok |-> TRUE,
                              toast |-> "Action submitted successfully!",
                              action |-> sub.action, comments |-> sub.comments]
            /\ comments' = ""
    /\ isSubmitting' = FALSE
    /\ UNCHANGED <<selectedAction, submitCalls>>
    /\ UNCHANGED <<trackVars, apiVars, ndrVars>>

\* The page with its form: the fetch of the details and the submissions.
NextSubmit ==
    \/ Mount
    \/ Unmount
    \/ \E t \in HookTokens : DepsChange(routeId, t)
    \/ \E f \in inflight, o \in PageOutcomes : Settle(f, o)
    \/ \E a \in ActionValues : SetSelectedAction(a)
    \/ \E c \in CommentTexts : SetComments(c)
    \/ HandleSubmitAction
    \/ \E sub \in submitting, thrown \in BOOLEAN : SubmitContinues(sub, thrown)

(***************************************************************************)
(*                          Specifications                                 *)
(***************************************************************************)

\* Initial states: the module bodies have been evaluated (dummyTrackingData,
\* axios.create) and the page's useState cells hold their initial values. A
\* unit's specification starts the other units in one fixed state.
InitTracking ==
    /\ clock = StartClock
    /\ loadTime = StartClock
    /\ call = IdleCall
    /\ firstCanned = None
    /\ authToken = None
    /\ location = "/seller/dashboard"
    /\ apiPending = {}
    /\ apiHandler = HandlerIdle
    /\ apiLast = [kind |-> "none"]
    /\ routeId = None
    /\ hookToken = "tokA"
    /\ loading = TRUE
    /\ error = None
    /\ ndrDetails = None
    /\ toasts = 0
    /\ inflight = {}
    /\ started = 0
    /\ effectRuns = 0
    /\ mounted = TRUE
    /\ ndrLast = [op |-> "none"]
    /\ selectedAction = "reschedule"
    /\ comments = ""
    /\ isSubmitting = FALSE
    /\ submitting = {}
    /\ submitCalls = 0
    /\ submitLast = [op |-> "none"]

InitApi ==
    /\ clock = StartClock
    /\ loadTime = StartClock
    /\ call = IdleCall
    /\ firstCanned = None
    /\ authToken \in StoredTokens
    /\ location = "/seller/dashboard"
    /\ apiPending = {}
    /\ apiHandler = HandlerIdle
    /\ apiLast = [kind |-> "none"]
    /\ routeId = None
    /\ hookToken = "tokA"
    /\ loading = TRUE
    /\ error = None
    /\ ndrDetails = None
    /\ toasts = 0
    /\ inflight = {}
    /\ started = 0
    /\ effectRuns = 0
    /\ mounted = TRUE
    /\ ndrLast = [op |-> "none"]
    /\ selectedAction = "reschedule"
    /\ comments = ""
    /\ isSubmitting = FALSE
    /\ submitting = {}
    /\ submitCalls = 0
    /\ submitLast = [op |-> "none"]

InitNDR ==
    /\ clock = StartClock
    /\ loadTime = StartClock
    /\ call = IdleCall
    /\ firstCanned = None
    /\ authToken = Some("t1")
    /\ location = "/seller/dashboard"
    /\ apiPending = {}
    /\ apiHandler = HandlerIdle
    /\ apiLast = [kind |-> "none"]
    /\ routeId \in RouteIds
    /\ hookToken = "tokA"
    /\ loading = TRUE
    /\ error = None
    /\ ndrDetails = None
    /\ toasts = 0
    /\ inflight = {}
    /\ started = 0
    /\ effectRuns = 0
    /\ mounted = TRUE
    /\ ndrLast = [op |-> "none"]
    /\ selectedAction = "reschedule"
    /\ comments = ""
    /\ isSubmitting = FALSE
    /\ submitting = {}
    /\ submitCalls = 0
    /\ submitLast = [op |-> "none"]

InitSubmit ==
    /\ clock = StartClock
    /\ loadTime = StartClock
    /\ call = IdleCall
    /\ firstCanned = None
    /\ authToken = Some("t1")
    /\ location = "/seller/dashboard"
    /\ apiPending = {}
    /\ apiHandler = HandlerIdle
    /\ apiLast = [kind |-> "none"]
    /\ routeId = Some("n1")
    /\ hookToken = "tokA"
    /\ loading = TRUE
    /\ error = None
    /\ ndrDetails = None
    /\ toasts = 0
    /\ inflight = {}
    /\ started = 0
    /\ effectRuns = 0
    /\ mounted = TRUE
    /\ ndrLast = [op |-> "none"]
    /\ selectedAction = "reschedule"
    /\ comments = ""
    /\ isSubmitting = FALSE
    /\ submitting = {}
    /\ submitCalls = 0
    /\ submitLast = [op |-> "none"]

SpecTracking == InitTracking /\ [][NextTracking]_vars

\* Scheduling of the tracking module: time passes, a due timer fires, the
\* synchronous generator runs on, and the random source is fair: it does not
\* return the origin's index forever.
FairTracking ==
    /\ WF_vars(Tick)
    /\ WF_vars(TimerFires)
    /\ WF_vars(GenEvents)
    /\ WF_vars(Redraw /\ call'.destIndex # call.originIndex)
FairSpecTracking == InitTracking /\ [][NextTracking]_vars /\ FairTracking
SpecApi      == InitApi /\ [][NextApi]_vars
SpecNDR      == InitNDR /\ [][NextNDR]_vars
SpecSubmit   == InitSubmit /\ [][NextSubmit]_vars

(***************************************************************************)
(*                              Claims                                     *)
(***************************************************************************)

\* The claims speak of the input and of the returned record; these say what a
\* 10-digit decimal string is without using the code's test.
TenDigits(s) == Len(s) = 10 /\ \A i \in 1..Len(s) : s[i] \in Digits
Done         == call.pc = "done"
Synthesized  == Done /\ TenDigits(call.awb) /\ call.awb \notin {Key1, Key2, Key3}
ReturnedCanned == Done /\ call.result.kind = "record" /\ ~call.result.generated

\* C1: for a 10-digit AWB that is no canned key, the returned record's events
\* are non-empty, ordered most-recent-first (strictly decreasing timestamps)
\* and end with a 'Shipped' event stamped exactly 48 hours before 'now'.
C1_EventsOrdered ==
    Synthesized =>
      /\ call.result.kind = "record"
      /\ LET ev == call.result.record.events IN
           /\ Len(ev) >= 1
           /\ \A i \in 1..(Len(ev) - 1) : ev[i].timestamp > ev[i + 1].timestamp
           /\ ev[Len(ev)].status = "Shipped"
           /\ ev[Len(ev)].timestamp = toLocaleString(call.result.now - 48 * 3600000)

C1_Witness ==
    /\ Synthesized
    /\ call.result.kind = "record"
    /\ call.result.generated
    /\ Len(call.result.record.events) = 4

\* C2: for a 10-digit AWB that is no canned key and every random draw, origin
\* and destination are different entries of the city list, so their
\* 'name, state' strings differ.
C2_DistinctEndpoints ==
    Synthesized =>
      /\ call.result.kind = "record"
      /\ call.originIndex # call.destIndex
      /\ call.result.record.origin = CityString(cities[call.originIndex + 1])
      /\ call.result.record.destination = CityString(cities[call.destIndex + 1])
      /\ call.result.record.origin # call.result.record.destination

C2_Witness ==
    /\ Synthesized
    /\ call.result.kind = "record"
    /\ call.result.record.origin = <<"Mumbai", "Maharashtra">>
    /\ call.result.record.destination = <<"Hyderabad", "Telangana">>

\* C3: an input that does not match ^\d{10}$ (empty, too short, too long or
\* with a non-digit) is rejected with the invalid-AWB error, yields no record
\* and never enters the generator.
C3_InvalidRejected ==
    (call.pc # "idle" /\ ~TenDigits(call.awb)) =>
      /\ call.pc # "loop"
      /\ call.result.kind # "record"
      /\ Done => call.result =
                   [kind |-> "error",
                    message |-> "Invalid AWB number. Please provide a 10-digit AWB number."]

C3_Witness ==
    /\ Done
    /\ Len(call.awb) = 11
    /\ \A i \in 1..11 : call.awb[i] \in Digits
    /\ call.result.kind = "error"

\* C4: when the response error handler is invoked with a 401, 'auth_token'
\* has been removed and the location set to '/login' by the time the handler
\* rejects, and it rejects with that same error.
C4_UnauthorizedHandled ==
    [][ (/\ apiHandler.pc = "reject"
         /\ apiHandler.error.response.has
         /\ apiHandler.error.response.val.status = 401
         /\ apiHandler'.pc = "idle")
        => /\ authToken = None /\ authToken' = None
           /\ location = "/login" /\ location' = "/login"
           /\ apiLast' = [kind |-> "rejected", error |-> apiHandler.error] ]_vars

C4_Witness ==
    /\ apiLast.kind = "rejected"
    /\ apiLast.error.response.has
    /\ apiLast.error.response.val.status = 401
    /\ authToken = None
    /\ location = "/login"

\* C5: only a failure with status 401 touches the credential or the location
\* (a success, another status or a failure without response leave both), the
\* credential is never written except by that removal, and a failure is
\* rejected with the error object the handler was given.
C5_OnlyUnauthorizedWrites ==
    [][ /\ (authToken' # authToken \/ location' # location)
           => /\ apiHandler.pc = "idle"
              /\ apiHandler'.pc = "reject"
              /\ apiHandler'.error.response.has
              /\ apiHandler'.error.response.val.status = 401
              /\ authToken' = None
              /\ location' = "/login"
        /\ (apiHandler.pc = "reject" /\ apiHandler'.pc = "idle")
           => apiLast' = [kind |-> "rejected", error |-> apiHandler.error] ]_vars

C5_Witness ==
    /\ apiLast.kind = "rejected"
    /\ apiLast.error.response.has
    /\ apiLast.error.response.val.status = 500
    /\ authToken = Some("t1")
    /\ location = "/seller/dashboard"

\* C6: a canned identifier returns the canned record, not a synthesized one:
\* '1234567890' has exactly 3 events and status 'In Transit', '9876543210'
\* exactly 4 events and status 'Delivered'.
C6_CannedReturned ==
    /\ (Done /\ call.awb = Key1) =>
         /\ ReturnedCanned
         /\ Len(call.result.record.events) = 3
         /\ call.result.record.currentStatus = "In Transit"
    /\ (Done /\ call.awb = Key2) =>
         /\ ReturnedCanned
         /\ Len(call.result.record.events) = 4
         /\ call.result.record.currentStatus = "Delivered"

C6_Witness ==
    /\ Done
    /\ call.awb = Key2
    /\ call.result.kind = "record"
    /\ Len(call.result.record.events) = 4

\* Two calls for the same canned identifier whose lookups ran at different times.
TwoCannedCalls ==
    /\ ReturnedCanned
    /\ firstCanned.has
    /\ firstCanned.val.awb = call.awb
    /\ firstCanned.val.at # call.result.now

\* C7 as stated: the timestamps of a canned record are relative to the time of
\* each call, so two calls at different times return different timestamps,
\* each at the same offsets from its own call time.
C7_RelativeToCallTime ==
    TwoCannedCalls =>
      /\ \A i \in 1..Len(call.result.record.events) :
            call.result.record.events[i].timestamp
              # firstCanned.val.record.events[i].timestamp
      /\ call.result.record = dummyTrackingData(call.result.now)[call.awb]
      /\ firstCanned.val.record = dummyTrackingData(firstCanned.val.at)[call.awb]

\* C7 as amended: the timestamps of a canned record are relative to the time
\* the module was loaded and are frozen: every call returns the same values,
\* whatever the time of the call.
C7_FrozenAtLoad ==
    /\ ReturnedCanned =>
         /\ call.result.record = dummyTrackingData(loadTime)[call.awb]
         /\ call.result.record.events[Len(call.result.record.events)].timestamp
              = toLocaleString(loadTime -
                               (IF call.awb = Key3 THEN 36 ELSE 48) * 3600000)
    /\ TwoCannedCalls => call.result.record = firstCanned.val.record

C7_Witness ==
    /\ TwoCannedCalls
    /\ call.result.now >= loadTime + 2000

\* C8: the request interceptor adds 'Authorization: Bearer <token>' with the
\* stored token exactly when a non-empty token is stored at request time; with
\* no token it adds no header; it never modifies the stored token.
C8_BearerIffToken ==
    [][ (apiLast'.kind = "request" /\ apiPending' # apiPending
         /\ apiPending \subseteq apiPending')
        => LET hdr == apiLast'.config.Authorization
               stored == authToken.has /\ authToken.val # ""
           IN /\ stored => hdr = Some(<<"Bearer", authToken.val>>)
              /\ ~stored => hdr = apiLast'.given
              /\ \E p \in apiPending' \ apiPending : p.headers.Authorization = hdr
              /\ authToken' = authToken ]_vars

C8_Witness ==
    /\ apiLast.kind = "request"
    /\ apiLast.config.Authorization = Some(<<"Bearer", "t1">>)
    /\ authToken = Some("t1")
    /\ \E p \in apiPending : p.headers.Authorization = Some(<<"Bearer", "t1">>)

\* The settled fetch failed: rejected, non-success status, unparsable body, or
\* a payload lacking a member the mapping dereferences.
FailedOutcome(l) ==
    /\ l.op = "settled"
    /\ \/ l.kind \in {"rejected", "status", "unparsable"}
       \/ l.kind = "json" /\ ~(l.hasData /\ l.hasHistory /\ l.hasAddress)

\* C9: every failure of the fetch or of the transformation is caught in
\* fetchNDRDetails: error becomes a non-null message, one error notification
\* is shown, loading becomes false, ndrDetails is not replaced and the error
\* view is rendered.
C9_FailureCaught ==
    [][ (inflight' # inflight /\ inflight' \subseteq inflight /\ FailedOutcome(ndrLast'))
        => /\ error'.has
           /\ error'.val # ""
           /\ toasts' = toasts + 1
           /\ loading' = FALSE
           /\ ndrDetails' = ndrDetails
           /\ View(loading', error', ndrDetails') = "error" ]_vars

C9_Witness ==
    /\ ndrLast.op = "settled"
    /\ ndrLast.kind = "json"
    /\ ndrLast.hasHistory
    /\ ~ndrLast.hasAddress
    /\ error.has
    /\ ~loading
    /\ toasts = 1

\* C10: once the effect has run and no request is outstanding, the page has
\* left the loading state, for every route id including an absent one.
C10_LeavesLoading ==
    (effectRuns >= 1 /\ inflight = {}) => ~loading

\* C11: if the page is unmounted while its fetch is in flight, the response
\* that arrives afterwards is a no-op: loading, error and ndrDetails are not
\* updated and no notification is shown after disposal.
C11_LateResponseNoOp ==
    [][ ~mounted => /\ loading' = loading
                    /\ error' = error
                    /\ ndrDetails' = ndrDetails
                    /\ toasts' = toasts ]_vars

\* The last step stored the mapping of a payload that has every member the
\* mapping dereferences.
Loaded ==
    /\ ndrLast.op = "settled"
    /\ ndrLast.kind = "json"
    /\ ndrLast.hasData /\ ndrLast.hasHistory /\ ndrLast.hasAddress

C13_LocationDefaults ==
    Loaded =>
      /\ ndrDetails.has
      /\ LET loc == ndrLast.location
             out == ndrDetails.val.currentLocation
         IN /\ ~loc.has => out = [lat |-> 0, lng |-> 0]
            /\ loc.has =>
                 /\ out.lat = (IF loc.val.lat.has THEN loc.val.lat.val ELSE 0)
                 /\ out.lng = (IF loc.val.lng.has THEN loc.val.lng.val ELSE 0)

C13_Witness ==
    /\ Loaded
    /\ ndrLast.location.has
    /\ ~ndrLast.location.val.lat.has
    /\ ndrLast.location.val.lng.has
    /\ ndrDetails.has
    /\ ndrDetails.val.currentLocation = [lat |-> 0, lng |-> 77]

\* C14: a malformed identifier is rejected before the simulated network
\* request and its latency begin: the call never waits on the delay with one.
C14_ValidatedBeforeDelay ==
    call.pc = "delay" => TenDigits(call.awb)

\* A step in which a fetch settles.
SettleStep == inflight' # inflight /\ inflight' \subseteq inflight

\* C15: for a non-success status, whatever the code, the error is the generic
\* 'Failed to fetch NDR details', nothing of the body is stored, and the
\* request is not retried: a run of the effect issues one request and a
\* settling fetch issues none.
C15_GenericFailureNoRetry ==
    [][ /\ (SettleStep /\ ndrLast'.op = "settled" /\ ndrLast'.kind = "status")
           => /\ error' = Some("Failed to fetch NDR details")
              /\ ndrDetails' = ndrDetails
              /\ started' = started
              /\ Cardinality(inflight') = Cardinality(inflight) - 1
        /\ (effectRuns' # effectRuns)
           => /\ effectRuns' = effectRuns + 1
              /\ started' = started + (IF routeId'.has /\ routeId'.val # "" THEN 1 ELSE 0)
              /\ Cardinality(inflight') = Cardinality(inflight) + (started' - started) ]_vars

C15_Witness ==
    /\ ndrLast.op = "settled"
    /\ ndrLast.kind = "status"
    /\ ndrLast.status = 500
    /\ error = Some("Failed to fetch NDR details")
    /\ inflight = {}
    /\ started = 1

\* C16: a 401 is handled as an authorization error on every fetch path,
\* the NDR details fetch included: the stored credential is invalidated and
\* the page is sent to the login route.
C16_UnauthorizedOnEveryPath ==
    (ndrLast.op = "settled" /\ ndrLast.kind = "status" /\ ndrLast.status = 401)
      => authToken = None /\ location = "/login"

\* C17: a synthesized record has status 'In Transit', expectedDelivery at
\* now + 72 h and n = 1..3 'In Transit' events before the final 'Shipped'
\* one; the k-th event is stamped now - (24 - 8(n-k)) h, so the offsets read
\* 24-8(n-1), ..., 16, 24, 48; the 'Shipped' event is located at the origin.
C17_SynthesizedShape ==
    Synthesized =>
      /\ call.result.kind = "record"
      /\ LET rec == call.result.record
             now == call.result.now
             ev  == rec.events
             n   == Len(ev) - 1
         IN /\ rec.currentStatus = "In Transit"
            /\ rec.expectedDelivery = (now + 72 * 3600000) \div 86400000
            /\ n \in 1..3
            /\ \A k \in 1..n :
                  /\ ev[k].status = "In Transit"
                  /\ ev[k].timestamp = (now - (24 - 8 * (n - k)) * 3600000) \div 1000
            /\ ev[n + 1].status = "Shipped"
            /\ ev[n + 1].timestamp = (now - 48 * 3600000) \div 1000
            /\ ev[n + 1].location = rec.origin

C17_Witness ==
    /\ Synthesized
    /\ call.result.kind = "record"
    /\ Len(call.result.record.events) = 3
    /\ call.result.record.events[1].timestamp
         = (call.result.now - 16 * 3600000) \div 1000

\* The clock of the model can still reach the call's timer.
TimerReachable == call.due <= StartClock + MaxTicks * TickMs

\* C18: every call of fetchTrackingInfo settles, resolved or rejected, once
\* its delay has passed; under a fair random source the destination re-draw
\* loop terminates.
C18_CallSettles ==
    /\ (call.pc = "delay" /\ TimerReachable) ~> (call.pc = "done")
    /\ (call.pc = "loop") ~> (call.pc = "done" /\ call.result.kind = "record")

C18_Witness ==
    /\ Done
    /\ call.result.kind = "record"
    /\ call.result.generated
    /\ call.result.now >= call.due
    /\ call.originIndex # call.destIndex

\* The most recently started fetch is still in flight.
NewestPending == \E f \in inflight : f.seq = started

\* A step in which a fetch older than the most recently started one settles.
StaleSettleStep == SettleStep /\ ndrLast'.op = "settled" /\ ndrLast'.seq < started

\* C19: when the effect re-runs while an earlier fetch is in flight,
\* the state reflects the most recently started fetch whatever the order of
\* arrival: a late response of the older fetch does not overwrite the newer
\* result, does not set an error over it, and does not clear loading while
\* the newer fetch is pending.
C19_NewestFetchWins ==
    [][ /\ (StaleSettleStep /\ NewestPending') => loading' = loading
        /\ (StaleSettleStep /\ ~NewestPending')
             => ndrDetails' = ndrDetails /\ error' = error ]_vars

\* C20: whenever loading is false, error or ndrDetails is non-null, so the
\* 'NDR details not found' fallback is never shown.
C20_NoNotFoundFallback ==
    /\ ~loading => (error.has \/ ndrDetails.has)
    /\ ~(~loading /\ ~(error.has /\ error.val # "") /\ ~ndrDetails.has)

C20_Witness ==
    /\ ~loading
    /\ ~error.has
    /\ ndrDetails.has
    /\ started = 2
    /\ inflight = {}

\* C21: every render calls the same hooks in the same number and order
\* whatever loading, error and ndrDetails are: the render after a step calls
\* exactly the hooks of the render before it.
C21_SameHooksEveryRender ==
    [][ mounted' => HooksCalled(loading', error', ndrDetails')
                     = HooksCalled(loading, error, ndrDetails) ]_vars

\* A step in which a handleSubmitAction call completes.
SubmitDoneStep == submitLast' # submitLast /\ submitLast'.op = "done"

\* C22: isSubmitting is true exactly while a submission is pending, at most
\* one submission is pending at any time, and a completing submission leaves
\* isSubmitting false on success and on failure, leaves selectedAction
\* unchanged and, on success, resets comments to the empty string.
C22_SubmitGuarded ==
    /\ [](/\ isSubmitting <=> submitting # {}
          /\ Cardinality(submitting) <= 1)
    /\ [][ SubmitDoneStep
            => /\ isSubmitting' = FALSE
               /\ selectedAction' = selectedAction
               /\ submitLast'.ok => comments' = "" ]_vars

C22_Witness ==
    /\ submitLast.op = "done"
    /\ submitLast.ok
    /\ submitLast.seq = 2
    /\ submitLast.comments # ""
    /\ comments = ""
    /\ selectedAction = "cancel"
    /\ ~isSubmitting
=============================================================================
